---- MODULE Spec2Model ----
(***************************************************************************)
(* Order synchronisation engine of src/main.py: the SQLite order store     *)
(* (db_save, db_pending), the retry decorator, the webhook handler and the *)
(* tracking worker.  Webhook handlers and the tracking worker are threads  *)
(* of one process; they share nothing but the orders table, and every      *)
(* statement that touches the table is one step of its thread.             *)
(***************************************************************************)
EXTENDS Integers, Sequences, FiniteSets, TLC

\* ------------------------------------------------------------------ bounds
MaxEvents == 2      \* inbound events handled in one behaviour
MaxScans  == 2      \* scans of the tracking worker in one behaviour
MaxClock  == 2      \* values CURRENT_TIMESTAMP takes in one behaviour
MaxAttempts == 3    \* largest max_attempts the retry decorator is applied with
MaxItems == 3       \* line items of an order
CpfVarLen == 2      \* trailing digits of a CPF's first nine that take every value
MaxStrLen == 3      \* characters of a string given to clean_document / clean_zipcode

\* ------------------------------------------------------- program constants
MAX_RETRIES == 3                    \* os.getenv("MAX_RETRIES", "3")

NULL == "NULL"                      \* SQL NULL / Python None in a text column
NoTime == 0                         \* SQL NULL in a timestamp column
SEM_RASTREIO == "SEM-RASTREIO"

OrderIds == {"A"}
Handlers == {1, 2}            \* request threads; a request takes the first free one

\* ------------------------------------------------------------ python dicts
\* dict.get(key, default)
Get(d, k, default) == IF k \in DOMAIN d THEN d[k] ELSE default

EmptyDict == [k \in {} |-> NULL]

\* bool(d) of a dict
Truthy(d) == DOMAIN d # {}

\* a Python value that is falsy in "if x" / "x or y": None or the empty string
Falsy(x) == x = NULL \/ x = ""

\* Python's  a or b
PyOr(a, b) == IF Falsy(a) THEN b ELSE a

\* ------------------------------------------------------ auxiliary functions
\* A string is a sequence of one-character strings.
DigitChars == <<"0", "1", "2", "3", "4", "5", "6", "7", "8", "9">>

IsDigit(c) == \E i \in 1..10 : DigitChars[i] = c

\* int(c) of a digit character
int(c) == (CHOOSE i \in 1..10 : DigitChars[i] = c) - 1

\* re.sub(r'[^0-9]', '', s)
RECURSIVE re_sub_non_digits(_)
re_sub_non_digits(str) ==
    IF str = <<>> THEN <<>>
    ELSE (IF IsDigit(Head(str)) THEN <<Head(str)>> ELSE <<>>)
         \o re_sub_non_digits(Tail(str))

\* Python's None where a string is expected: no string equals it
None == <<"None">>

\* not x, of a string or None
not(x) == x = None \/ x = <<>>

clean_document(document) ==
    IF not(document) THEN <<>> ELSE re_sub_non_digits(document)

clean_zipcode_as_given(zipcode) ==
    IF not(zipcode) THEN <<>> ELSE zipcode

clean_zipcode(zipcode) ==
    IF not(zipcode) THEN <<>> ELSE re_sub_non_digits(zipcode)

\* sum(int(cpf[i]) * (top - i) for i in range(n)), with 0-based i
RECURSIVE weighted_sum(_, _, _)
weighted_sum(cpf, top, n) ==
    IF n = 0 THEN 0
    ELSE weighted_sum(cpf, top, n - 1) + int(cpf[n]) * (top - (n - 1))

\* dig = 11 - (sum % 11); dig = 0 if dig >= 10 else dig
check_digit(sum) ==
    LET dig == 11 - (sum % 11) IN IF dig >= 10 THEN 0 ELSE dig

\* variant: a repeated digit is not rejected
validate_cpf_repeated_ok(cpf0) ==
    LET cpf == clean_document(cpf0) IN
    IF Len(cpf) # 11 THEN FALSE
    ELSE IF check_digit(weighted_sum(cpf, 10, 9)) # int(cpf[10]) THEN FALSE
    ELSE IF check_digit(weighted_sum(cpf, 11, 10)) # int(cpf[11]) THEN FALSE
    ELSE TRUE

validate_cpf(cpf0) ==
    LET cpf == clean_document(cpf0) IN
    IF Len(cpf) # 11 THEN FALSE
    ELSE IF cpf = [i \in 1..11 |-> cpf[1]] THEN FALSE
    ELSE IF check_digit(weighted_sum(cpf, 10, 9)) # int(cpf[10]) THEN FALSE
    ELSE IF check_digit(weighted_sum(cpf, 11, 10)) # int(cpf[11]) THEN FALSE
    ELSE TRUE

\* ---------------------------------------------------------------- payloads
\* Inbound payloads: an order given directly, or wrapped as {event, data}.
FullOrder(id, fs) ==
    [id |-> id, fulfillment_status |-> fs,
     address |-> [zipcode |-> "01310-100"], customer |-> [name |-> "Cliente"]]

DirectPayloads ==
    UNION { { FullOrder(id, "invoiced"),
              FullOrder(id, "pending"),
              [id |-> id, address |-> [zipcode |-> "01310-100"],
               customer |-> [name |-> "Cliente"]],
              [id |-> id, fulfillment_status |-> "invoiced",
               customer |-> [name |-> "Cliente"]],
              [id |-> id, fulfillment_status |-> "invoiced",
               address |-> [zipcode |-> "01310-100"]] } : id \in OrderIds }
    \cup { [fulfillment_status |-> fs,
            address |-> [zipcode |-> "01310-100"], customer |-> [name |-> "Cliente"]] :
            fs \in {"invoiced", "pending"} }

\* a wrapped payload whose data has no id, with an id beside the data
StrayIdPayload ==
    [event |-> "order.updated", id |-> "A",
     data |-> [fulfillment_status |-> "invoiced",
               address |-> [zipcode |-> "01310-100"], customer |-> [name |-> "Cliente"]]]

Payloads ==
    DirectPayloads \cup { [event |-> "order.updated", data |-> p] : p \in DirectPayloads }
    \cup { StrayIdPayload }

\* variant: the data field is not looked into
normalize_order_data_direct(pedido) == pedido

normalize_order_data(pedido) ==
    IF "event" \in DOMAIN pedido /\ "data" \in DOMAIN pedido
    THEN pedido["data"]
    ELSE pedido

\* ------------------------------------------------------------- order store
NoRow ==
    [exists |-> FALSE, melhorenvio_order_id |-> NULL, tracking_code |-> NULL,
     status |-> NULL, retry_count |-> 0, last_error |-> NULL,
     updated_at |-> NoTime, delivered_at |-> NoTime]

COALESCE(a, b) == IF a # NULL THEN a ELSE b

\* db_save, first statement: SELECT retry_count, and the value computed from it
db_save_retry_count(d, order_id, error) ==
    (IF d[order_id].exists THEN d[order_id].retry_count ELSE 0)
    + (IF Falsy(error) THEN 0 ELSE 1)

\* variant: COALESCE with its arguments swapped, the stored value wins
db_save_upsert_keep_old(d, order_id, me_order_id, tracking, status, retry_count, error, t) ==
    LET old == d[order_id] IN
    [d EXCEPT ![order_id] =
        [exists |-> TRUE,
         melhorenvio_order_id |-> COALESCE(old.melhorenvio_order_id, me_order_id),
         tracking_code |-> COALESCE(old.tracking_code, tracking),
         status |-> status,
         retry_count |-> retry_count,
         last_error |-> error,
         updated_at |-> t,
         delivered_at |-> IF old.exists /\ status = "delivered" THEN t ELSE old.delivered_at]]

\* variant: last_error = COALESCE(?, last_error)
db_save_upsert_keep_error(d, order_id, me_order_id, tracking, status, retry_count, error, t) ==
    LET old == d[order_id] IN
    IF ~old.exists
    THEN [d EXCEPT ![order_id] =
            [exists |-> TRUE, melhorenvio_order_id |-> me_order_id,
             tracking_code |-> tracking, status |-> status,
             retry_count |-> retry_count, last_error |-> error,
             updated_at |-> t, delivered_at |-> NoTime]]
    ELSE [d EXCEPT ![order_id] =
            [exists |-> TRUE,
             melhorenvio_order_id |-> COALESCE(me_order_id, old.melhorenvio_order_id),
             tracking_code |-> COALESCE(tracking, old.tracking_code),
             status |-> status,
             retry_count |-> retry_count,
             last_error |-> COALESCE(error, old.last_error),
             updated_at |-> t,
             delivered_at |-> IF status = "delivered" THEN t ELSE old.delivered_at]]

\* db_save, second statement: INSERT ... ON CONFLICT(bagy_order_id) DO UPDATE
db_save_upsert(d, order_id, me_order_id, tracking, status, retry_count, error, t) ==
    LET old == d[order_id] IN
    IF ~old.exists
    THEN [d EXCEPT ![order_id] =
            [exists |-> TRUE, melhorenvio_order_id |-> me_order_id,
             tracking_code |-> tracking, status |-> status,
             retry_count |-> retry_count, last_error |-> error,
             updated_at |-> t, delivered_at |-> NoTime]]
    ELSE [d EXCEPT ![order_id] =
            [exists |-> TRUE,
             melhorenvio_order_id |-> COALESCE(me_order_id, old.melhorenvio_order_id),
             tracking_code |-> COALESCE(tracking, old.tracking_code),
             status |-> status,
             retry_count |-> retry_count,
             last_error |-> error,
             updated_at |-> t,
             delivered_at |-> IF status = "delivered" THEN t ELSE old.delivered_at]]

\* the WHERE clause of db_pending
Pending(row) ==
    /\ row.exists
    /\ row.status \in {"created", "shipped"}
    /\ row.tracking_code # NULL
    /\ row.tracking_code # SEM_RASTREIO
    /\ row.retry_count < MAX_RETRIES * 2

\* db_pending: the selected rows ORDER BY updated_at ASC (ties in any order)
db_pending(d) ==
    LET sel == { o \in DOMAIN d : Pending(d[o]) }
        n   == Cardinality(sel)
    IN { [i \in 1..n |->
            [bagy_order_id |-> f[i],
             me_order_id |-> d[f[i]].melhorenvio_order_id,
             tracking_code |-> d[f[i]].tracking_code]] :
         f \in { g \in [1..n -> sel] :
                   /\ \A i, j \in 1..n : i # j => g[i] # g[j]
                   /\ \A i, j \in 1..n :
                        i < j => d[g[i]].updated_at <= d[g[j]].updated_at } }

\* ------------------------------------------------------------ retry policy
\* retry_on_failure: results[i] is what the i-th invocation of the wrapped
\* function does if it is made: [ok, val, err, http].  The wrapper returns the
\* first successful invocation's value, or raises the last one's exception.
RECURSIVE retry_loop(_, _, _, _)
retry_loop(results, attempt, max_attempts, http) ==
    IF attempt > max_attempts
    THEN [ok |-> FALSE, val |-> NULL, err |-> results[max_attempts].err,
          invocations |-> max_attempts, http |-> http]
    ELSE IF results[attempt].ok
         THEN [ok |-> TRUE, val |-> results[attempt].val, err |-> NULL,
               invocations |-> attempt, http |-> http + results[attempt].http]
         ELSE retry_loop(results, attempt + 1, max_attempts,
                         http + results[attempt].http)

\* variant: the wrapper gives up after the first invocation
retry_on_failure_once(results, max_attempts) == retry_loop(results, 1, 1, 0)

retry_on_failure(results, max_attempts) == retry_loop(results, 1, max_attempts, 0)

\* ------------------------------------------------------------ remote calls
\* What the carrier answers to POST /me/cart: r.ok and the JSON body.
CarrierReplies ==
    { [ok |-> FALSE, data |-> EmptyDict],
      [ok |-> TRUE,  data |-> [id |-> "ME1", tracking |-> "TR1"]],
      [ok |-> TRUE,  data |-> [id |-> "ME2", protocol |-> "TR2"]],
      [ok |-> TRUE,  data |-> EmptyDict] }

E_ADDRESS   == "Endereco de entrega nao encontrado no pedido"
E_CUSTOMER  == "Dados do cliente nao encontrados no pedido"
E_CARRIER   == "Erro Melhor Envio"
E_SHIPPED   == "Erro Bagy shipped"
E_DELIVERED == "Erro Bagy delivered"

\* One invocation of send_to_melhorenvio (the body under the decorator).
send_to_melhorenvio(pedido0, r) ==
    LET pedido == normalize_order_data(pedido0)
        a1     == Get(pedido, "address", EmptyDict)
        addr   == IF Truthy(a1) THEN a1 ELSE Get(pedido, "shipping_address", EmptyDict)
        cust   == Get(pedido, "customer", EmptyDict)
        data   == r.data
        me_order_id == Get(data, "id", "")
        tracking == PyOr(PyOr(Get(data, "tracking", ""), Get(data, "protocol", "")),
                         SEM_RASTREIO)
    IN IF ~Truthy(addr)
       THEN [ok |-> FALSE, val |-> NULL, err |-> E_ADDRESS, http |-> 0]
       ELSE IF ~Truthy(cust)
       THEN [ok |-> FALSE, val |-> NULL, err |-> E_CUSTOMER, http |-> 0]
       ELSE IF ~r.ok
       THEN [ok |-> FALSE, val |-> NULL, err |-> E_CARRIER, http |-> 1]
       ELSE [ok |-> TRUE, val |-> <<me_order_id, tracking>>, err |-> NULL, http |-> 1]

\* send_to_melhorenvio, the items of the order and the volume of the request.
\* A float is the number of its tenths (0.3 is 3, 20.7 is 207); a JSON value
\* that may be null is [t |-> "null"] or [t |-> "list", v |-> the list].
DefaultItem == [weight |-> 3, length |-> 200, height |-> 100, width |-> 150, quantity |-> 1]

\* max(a, b)
max(a, b) == IF a >= b THEN a ELSE b

\* int(x) of a float that is not negative
int_of_float(x) == x \div 10

\* sum(float(it.get("weight", 0.3)) * int(it.get("quantity", 1)) for it in items)
RECURSIVE sum_weight(_)
sum_weight(items) ==
    IF items = <<>> THEN 0
    ELSE Get(Head(items), "weight", 3) * Get(Head(items), "quantity", 1)
         + sum_weight(Tail(items))

\* max((float(it.get(key, default)) for it in items), default=default)
RECURSIVE max_of(_, _, _)
max_of(items, key, default) ==
    IF items = <<>> THEN default
    ELSE IF Len(items) = 1 THEN Get(items[1], key, default)
    ELSE max(Get(Head(items), key, default), max_of(Tail(items), key, default))

\* variant: no minimum weight
send_to_melhorenvio_volumes_no_floor(pedido) ==
    LET raw    == Get(pedido, "items", [t |-> "list", v |-> <<>>])
        items0 == IF raw.t = "list" /\ raw.v # <<>> THEN raw.v ELSE <<>>
        items  == IF items0 = <<>> THEN <<DefaultItem>> ELSE items0
    IN [items |-> items,
        volumes |-> << [height |-> int_of_float(max_of(items, "height", 100)),
                        width  |-> int_of_float(max_of(items, "width", 150)),
                        length |-> int_of_float(max_of(items, "length", 200)),
                        weight |-> sum_weight(items)] >>]

\* the items the builder works on and payload["volumes"]
send_to_melhorenvio_volumes(pedido) ==
    LET raw    == Get(pedido, "items", [t |-> "list", v |-> <<>>])
        items0 == IF raw.t = "list" /\ raw.v # <<>> THEN raw.v ELSE <<>>
        items  == IF items0 = <<>> THEN <<DefaultItem>> ELSE items0
        total_weight == max(sum_weight(items), 3)
        max_length == max_of(items, "length", 200)
        max_height == max_of(items, "height", 100)
        max_width  == max_of(items, "width", 150)
    IN [items |-> items,
        volumes |-> << [height |-> int_of_float(max_height),
                        width  |-> int_of_float(max_width),
                        length |-> int_of_float(max_length),
                        weight |-> total_weight] >>]

\* One invocation of bagy_mark_shipped / bagy_mark_delivered: a PUT that the
\* storefront accepts (rok) or rejects.
bagy_mark_shipped(rok) ==
    IF rok THEN [ok |-> TRUE, val |-> NULL, err |-> NULL, http |-> 1]
    ELSE [ok |-> FALSE, val |-> NULL, err |-> E_SHIPPED, http |-> 1]

bagy_mark_delivered(rok) ==
    IF rok THEN [ok |-> TRUE, val |-> NULL, err |-> NULL, http |-> 1]
    ELSE [ok |-> FALSE, val |-> NULL, err |-> E_DELIVERED, http |-> 1]

\* What the carrier answers to POST /me/shipment/tracking: a transport error
\* (requests raises), a non-2xx answer, or a list of status texts.
TrackingReplies ==
    { [raised |-> TRUE,  ok |-> FALSE, statuses |-> <<>>],
      [raised |-> FALSE, ok |-> FALSE, statuses |-> <<>>],
      [raised |-> FALSE, ok |-> TRUE,  statuses |-> <<"posted">>],
      [raised |-> FALSE, ok |-> TRUE,  statuses |-> <<"posted", "entregue">>],
      [raised |-> FALSE, ok |-> TRUE,  statuses |-> <<"delivered">>] }

\* the status texts of the model that contain "entregue", "delivered" or "finalizado"
is_delivered(status) == status \in {"entregue", "delivered", "finalizado"}

\* variant: a transport error counts as delivered
melhorenvio_check_delivered_on_error(r) ==
    IF r.raised THEN TRUE
    ELSE IF ~r.ok THEN FALSE
    ELSE \E i \in 1..Len(r.statuses) : is_delivered(r.statuses[i])

melhorenvio_check_delivered(r) ==
    IF r.raised THEN FALSE
    ELSE IF ~r.ok THEN FALSE
    ELSE \E i \in 1..Len(r.statuses) : is_delivered(r.statuses[i])

\* ------------------------------------------------------------------- state
VARIABLES
    db,        \* the orders table: order id -> row
    now,       \* CURRENT_TIMESTAMP
    hs,        \* webhook handler threads
    wk,        \* the tracking worker thread
    nevents,   \* events received so far
    nscans,    \* scans started so far
    hist,      \* per order: what has happened to it so far
    call       \* a helper function applied on its own: its input and its result

vars == <<db, now, hs, wk, nevents, nscans, hist, call>>

\* A handler thread: its position, its locals, its response; and, for the
\* handling it is in or has just ended: sent (create-shipment succeeded),
\* marked (mark-shipped succeeded), calls (the remote operations it called) and
\* wrote (the status it wrote to the table); and, for the decorated function it
\* has just returned from: attempts (invocations of the function body) and http
\* (requests it sent).
IdleHandler ==
    [pc |-> "done", pedido |-> EmptyDict, order_id |-> NULL,
     me_order_id |-> NULL, tracking |-> NULL, error_msg |-> NULL,
     retry_count |-> 0, resp |-> NULL,
     sent |-> FALSE, marked |-> FALSE, calls |-> {}, wrote |-> NULL,
     attempts |-> 0, http |-> 0]

\* what a handler keeps once it has answered
Answered(hd, resp) ==
    [IdleHandler EXCEPT !.resp = resp, !.sent = hd.sent, !.marked = hd.marked,
                        !.calls = hd.calls, !.wrote = hd.wrote]

\* The worker thread: its position, the rest of pending_orders (the order being
\* processed first), its locals; and, for that order: delivered (the carrier
\* query returned true), marked (mark-delivered succeeded) and queries (the
\* delivery queries sent for it); and, for the decorated function it has just
\* returned from: attempts (invocations of the function body) and http
\* (requests it sent).
IdleWorker ==
    [pc |-> "sleep", pending |-> <<>>, error_msg |-> NULL, retry_count |-> 0,
     delivered |-> FALSE, marked |-> FALSE, queries |-> 0,
     attempts |-> 0, http |-> 0]

\* What has happened to an order so far: its row has been set delivered, its
\* retry_count has reached the circuit breaker's threshold, the number of
\* db_save writes for it that carried an error, and a handling has recorded
\* the sentinel as its tracking code.
NoHist == [delivered |-> FALSE, tripped |-> FALSE, errors |-> 0, sentinel |-> FALSE,
           shipped |-> FALSE]

\* no helper function is being applied on its own
NoCall == [fn |-> NULL, done |-> TRUE]

\* The row the program reaches from the empty table by one successful sync of
\* the order (carrier answer ME1/TR1) followed by 2 * MAX_RETRIES - 1 scans in
\* each of which the carrier reports delivery and mark-delivered is rejected.
SeedRow ==
    [exists |-> TRUE, melhorenvio_order_id |-> "ME1", tracking_code |-> "TR1",
     status |-> "created", retry_count |-> 2 * MAX_RETRIES - 1,
     last_error |-> E_DELIVERED, updated_at |-> 1, delivered_at |-> NoTime]

Init ==
    /\ db \in [OrderIds -> {NoRow, SeedRow}]
    /\ now = 1
    /\ hs = [h \in Handlers |-> IdleHandler]
    /\ wk = IdleWorker
    /\ nevents = 0
    /\ nscans = 0
    /\ hist = [o \in OrderIds |-> [NoHist EXCEPT !.errors = db[o].retry_count,
                                               !.shipped = db[o].exists]]
    /\ call = NoCall

\* the timestamps a statement executed now or later can see
Times == { t \in {now, now + 1} : t <= MaxClock }

\* the history after a db_save for order_id, carrying error, has left the table d
Observe(h, d, order_id, error) ==
    [o \in DOMAIN h |->
        [h[o] EXCEPT
           !.delivered = @ \/ (d[o].exists /\ d[o].status = "delivered"),
           !.shipped   = @ \/ (d[o].exists /\ d[o].status = "shipped"),
           !.tripped   = @ \/ (d[o].exists /\ d[o].retry_count >= MAX_RETRIES * 2),
           !.errors    = @ + (IF o = order_id /\ ~Falsy(error) THEN 1 ELSE 0)]]

\* --------------------------------------------------------- webhook_handler
\* webhook_handler up to and including the "already processed" SELECT: the
\* payload is normalised, a missing id answers 400, a fulfillment status other
\* than "invoiced" and a stored status shipped/delivered answer 200.
\* variant: the guard forgets the delivered status
AlreadyProcessed_shipped_only(row) == row.exists /\ row.status = "shipped"

AlreadyProcessed(row) == row.exists /\ row.status \in {"shipped", "delivered"}

\* variant: only a status known not to be invoiced is ignored
Ignored_pending_only(fulfillment_status) == fulfillment_status = "pending"

\* if fulfillment_status != "invoiced": the event is ignored
Ignored(fulfillment_status) == fulfillment_status # "invoiced"

webhook_handler(h, pedido) ==
    /\ hs[h].pc = "done"
    /\ \A g \in Handlers : g < h => hs[g].pc # "done"
    /\ nevents < MaxEvents
    /\ nevents' = nevents + 1
    /\ LET pedido_normalizado == normalize_order_data(pedido)
           order_id == Get(pedido_normalizado, "id", NULL)
           fulfillment_status == Get(pedido_normalizado, "fulfillment_status", "")
       IN IF Falsy(order_id)
          THEN hs' = [hs EXCEPT ![h] = Answered(IdleHandler, "400 no id")]
          ELSE IF Ignored(fulfillment_status)
          THEN hs' = [hs EXCEPT ![h] = Answered(IdleHandler, "200 ignored")]
          ELSE IF AlreadyProcessed(db[order_id])
          THEN hs' = [hs EXCEPT ![h] = Answered(IdleHandler, "200 already processed")]
          ELSE hs' = [hs EXCEPT ![h] =
                        [IdleHandler EXCEPT !.pc = "send",
                                            !.pedido = pedido_normalizado,
                                            !.order_id = order_id]]
    /\ UNCHANGED <<db, now, wk, nscans, hist, call>>

\* me_order_id, tracking = send_to_melhorenvio(pedido_normalizado), retried
handler_send(h) ==
    /\ hs[h].pc = "send"
    /\ \E replies \in [1..MAX_RETRIES -> CarrierReplies] :
         LET res == retry_on_failure(
                        [i \in 1..MAX_RETRIES |-> send_to_melhorenvio(hs[h].pedido, replies[i])],
                        MAX_RETRIES)
             calls == hs[h].calls \cup (IF res.http > 0 THEN {"create_shipment"} ELSE {})
         IN IF res.ok
            THEN hs' = [hs EXCEPT ![h].pc = "mark", ![h].calls = calls,
                                  ![h].attempts = res.invocations,
                                  ![h].http = res.http,
                                  ![h].sent = TRUE,
                                  ![h].me_order_id = res.val[1],
                                  ![h].tracking = res.val[2]]
            ELSE hs' = [hs EXCEPT ![h].pc = "error_select", ![h].calls = calls,
                                  ![h].attempts = res.invocations,
                                  ![h].http = res.http,
                                  ![h].error_msg = res.err]
    /\ UNCHANGED <<db, now, wk, nevents, nscans, hist, call>>

\* bagy_mark_shipped(order_id, tracking), retried
handler_mark_shipped(h) ==
    /\ hs[h].pc = "mark"
    /\ \E roks \in [1..MAX_RETRIES -> BOOLEAN] :
         LET res == retry_on_failure(
                        [i \in 1..MAX_RETRIES |-> bagy_mark_shipped(roks[i])], MAX_RETRIES)
             calls == hs[h].calls \cup (IF res.http > 0 THEN {"mark_shipped"} ELSE {})
         IN IF res.ok
            THEN hs' = [hs EXCEPT ![h].pc = "save_select", ![h].calls = calls,
                                  ![h].attempts = res.invocations,
                                  ![h].http = res.http,
                                  ![h].marked = TRUE]
            ELSE hs' = [hs EXCEPT ![h].pc = "error_select", ![h].calls = calls,
                                  ![h].attempts = res.invocations,
                                  ![h].http = res.http,
                                  ![h].error_msg = res.err]
    /\ UNCHANGED <<db, now, wk, nevents, nscans, hist, call>>

\* db_save(order_id, me_order_id, tracking, status="shipped"): the SELECT
handler_save_select(h) ==
    /\ hs[h].pc = "save_select"
    /\ hs' = [hs EXCEPT ![h].pc = "save_upsert", ![h].attempts = 0, ![h].http = 0,
                        ![h].retry_count = db_save_retry_count(db, hs[h].order_id, NULL)]
    /\ UNCHANGED <<db, now, wk, nevents, nscans, hist, call>>

\* ... the upsert, and the 200 response
handler_save_upsert(h) ==
    /\ hs[h].pc = "save_upsert"
    /\ \E t \in Times :
         /\ now' = t
         /\ db' = db_save_upsert(db, hs[h].order_id, hs[h].me_order_id, hs[h].tracking,
                                 "shipped", hs[h].retry_count, NULL, t)
    /\ hs' = [hs EXCEPT ![h] = Answered([hs[h] EXCEPT !.wrote = "shipped"], "200 success")]
    /\ hist' = [Observe(hist, db', NULL, NULL) EXCEPT
                    ![hs[h].order_id].sentinel = @ \/ hs[h].tracking = SEM_RASTREIO]
    /\ UNCHANGED <<wk, nevents, nscans, call>>

\* except: db_save(order_id, status="error", error=error_msg): the SELECT
handler_error_select(h) ==
    /\ hs[h].pc = "error_select"
    /\ hs' = [hs EXCEPT ![h].pc = "error_upsert", ![h].attempts = 0, ![h].http = 0,
                        ![h].retry_count =
                            db_save_retry_count(db, hs[h].order_id, hs[h].error_msg)]
    /\ UNCHANGED <<db, now, wk, nevents, nscans, hist, call>>

\* ... the upsert, and the 500 response carrying the message
handler_error_upsert(h) ==
    /\ hs[h].pc = "error_upsert"
    /\ \E t \in Times :
         /\ now' = t
         /\ db' = db_save_upsert(db, hs[h].order_id, NULL, NULL,
                                 "error", hs[h].retry_count, hs[h].error_msg, t)
    /\ hs' = [hs EXCEPT ![h] = Answered([hs[h] EXCEPT !.wrote = "error"], hs[h].error_msg)]
    /\ hist' = Observe(hist, db', hs[h].order_id, hs[h].error_msg)
    /\ UNCHANGED <<wk, nevents, nscans, call>>

\* --------------------------------------------------------- tracking_worker
\* variant: an order's failure ends the scan
NextOrder_abort(w) ==
    LET rest == IF w.error_msg # NULL THEN <<>> ELSE Tail(w.pending) IN
    [IdleWorker EXCEPT !.pending = rest,
                       !.pc = IF rest = <<>> THEN "sleep" ELSE "check"]

\* variant: an order whose processing failed is processed again
NextOrder_again(w) ==
    LET rest == IF w.error_msg # NULL THEN w.pending ELSE Tail(w.pending) IN
    [IdleWorker EXCEPT !.pending = rest,
                       !.pc = IF rest = <<>> THEN "sleep" ELSE "check"]

\* the worker moves to the next order of its scan, or sleeps until the next scan
NextOrder(w) ==
    LET rest == Tail(w.pending) IN
    [IdleWorker EXCEPT !.pending = rest,
                       !.pc = IF rest = <<>> THEN "sleep" ELSE "check"]

\* pending_orders = db_pending()
tracking_worker_scan ==
    /\ wk.pc = "sleep"
    /\ nscans < MaxScans
    /\ nscans' = nscans + 1
    /\ \E pending_orders \in db_pending(db) :
         wk' = [IdleWorker EXCEPT !.pending = pending_orders,
                                  !.pc = IF pending_orders = <<>> THEN "sleep" ELSE "check"]
    /\ UNCHANGED <<db, now, hs, nevents, hist, call>>

\* if me_order_id and melhorenvio_check_delivered(me_order_id)
worker_check ==
    /\ wk.pc = "check"
    /\ LET o == Head(wk.pending) IN
       IF Falsy(o.me_order_id)
       THEN wk' = NextOrder(wk)
       ELSE \E r \in TrackingReplies :
              IF melhorenvio_check_delivered(r)
              THEN wk' = [wk EXCEPT !.pc = "mark", !.delivered = TRUE,
                                    !.queries = @ + 1]
              ELSE wk' = NextOrder(wk)
    /\ UNCHANGED <<db, now, hs, nevents, nscans, hist, call>>

\* bagy_mark_delivered(bagy_order_id), retried
worker_mark_delivered ==
    /\ wk.pc = "mark"
    /\ \E roks \in [1..MAX_RETRIES -> BOOLEAN] :
         LET res == retry_on_failure(
                        [i \in 1..MAX_RETRIES |-> bagy_mark_delivered(roks[i])], MAX_RETRIES)
         IN IF res.ok
            THEN wk' = [wk EXCEPT !.pc = "save_select", !.marked = TRUE,
                                  !.attempts = res.invocations, !.http = res.http]
            ELSE wk' = [wk EXCEPT !.pc = "error_select", !.error_msg = res.err,
                                  !.attempts = res.invocations, !.http = res.http]
    /\ UNCHANGED <<db, now, hs, nevents, nscans, hist, call>>

\* db_save(bagy_order_id, me_order_id, tracking_code, status="delivered"): the SELECT
worker_save_select ==
    /\ wk.pc = "save_select"
    /\ wk' = [wk EXCEPT !.pc = "save_upsert", !.attempts = 0, !.http = 0,
                        !.retry_count =
                            db_save_retry_count(db, Head(wk.pending).bagy_order_id, NULL)]
    /\ UNCHANGED <<db, now, hs, nevents, nscans, hist, call>>

\* ... the upsert, then the next order
worker_save_upsert ==
    /\ wk.pc = "save_upsert"
    /\ LET o == Head(wk.pending) IN
       \E t \in Times :
         /\ now' = t
         /\ db' = db_save_upsert(db, o.bagy_order_id, o.me_order_id, o.tracking_code,
                                 "delivered", wk.retry_count, NULL, t)
    /\ wk' = NextOrder(wk)
    /\ hist' = Observe(hist, db', NULL, NULL)
    /\ UNCHANGED <<hs, nevents, nscans, call>>

\* except: db_save(bagy_order_id, me_order_id, tracking_code, error=error_msg):
\* the SELECT
worker_error_select ==
    /\ wk.pc = "error_select"
    /\ wk' = [wk EXCEPT !.pc = "error_upsert", !.attempts = 0, !.http = 0,
                        !.retry_count =
                            db_save_retry_count(db, Head(wk.pending).bagy_order_id,
                                                wk.error_msg)]
    /\ UNCHANGED <<db, now, hs, nevents, nscans, hist, call>>

\* the status db_save writes when its caller passes none
DefaultStatus == "created"

\* ... the upsert (status is db_save's default), then the next order
worker_error_upsert ==
    /\ wk.pc = "error_upsert"
    /\ LET o == Head(wk.pending) IN
       \E t \in Times :
         /\ now' = t
         /\ db' = db_save_upsert(db, o.bagy_order_id, o.me_order_id, o.tracking_code,
                                 DefaultStatus, wk.retry_count, wk.error_msg, t)
    /\ wk' = NextOrder(wk)
    /\ hist' = Observe(hist, db', Head(wk.pending).bagy_order_id, wk.error_msg)
    /\ UNCHANGED <<hs, nevents, nscans, call>>

\* ----------------------------------------------------------- specification
Next ==
    \/ \E h \in Handlers, pedido \in Payloads : webhook_handler(h, pedido)
    \/ \E h \in Handlers : handler_send(h)
    \/ \E h \in Handlers : handler_mark_shipped(h)
    \/ \E h \in Handlers : handler_save_select(h)
    \/ \E h \in Handlers : handler_save_upsert(h)
    \/ \E h \in Handlers : handler_error_select(h)
    \/ \E h \in Handlers : handler_error_upsert(h)
    \/ tracking_worker_scan
    \/ worker_check
    \/ worker_mark_delivered
    \/ worker_save_select
    \/ worker_save_upsert
    \/ worker_error_select
    \/ worker_error_upsert

Spec == Init /\ [][Next]_vars

\* one request at a time, overlapping freely with the worker's scans
NoRequest == \A h \in Handlers : hs[h].pc = "done"

SoloNext ==
    \/ \E h \in Handlers, pedido \in Payloads : NoRequest /\ webhook_handler(h, pedido)
    \/ \E h \in Handlers : handler_send(h)
    \/ \E h \in Handlers : handler_mark_shipped(h)
    \/ \E h \in Handlers : handler_save_select(h)
    \/ \E h \in Handlers : handler_save_upsert(h)
    \/ \E h \in Handlers : handler_error_select(h)
    \/ \E h \in Handlers : handler_error_upsert(h)
    \/ tracking_worker_scan
    \/ worker_check
    \/ worker_mark_delivered
    \/ worker_save_select
    \/ worker_save_upsert
    \/ worker_error_select
    \/ worker_error_upsert

SoloSpec == Init /\ [][SoloNext]_vars

\* the steps of a request thread once the request has arrived, and the steps
\* of the worker once a scan has started
HandlerStep(h) ==
    \/ handler_send(h)
    \/ handler_mark_shipped(h)
    \/ handler_save_select(h)
    \/ handler_save_upsert(h)
    \/ handler_error_select(h)
    \/ handler_error_upsert(h)

WorkerStep ==
    \/ worker_check
    \/ worker_mark_delivered
    \/ worker_save_select
    \/ worker_save_upsert
    \/ worker_error_select
    \/ worker_error_upsert

\* Every thread that can take a step eventually takes one: the threads are
\* scheduled by the operating system, every request to the carrier or the
\* storefront carries timeout=REQUEST_TIMEOUT, the sleeps between attempts and
\* between orders are finite.
FairSpec ==
    /\ SoloSpec
    /\ \A h \in Handlers : WF_vars(HandlerStep(h))
    /\ WF_vars(WorkerStep)

\* The same program when no two threads overlap: an event is handled, and an
\* order of a scan is processed, only while every other thread is at rest.
Quiet == wk.pc = "sleep" /\ \A h \in Handlers : hs[h].pc = "done"

SeqNext ==
    \/ \E h \in Handlers, pedido \in Payloads : Quiet /\ webhook_handler(h, pedido)
    \/ \E h \in Handlers : handler_send(h)
    \/ \E h \in Handlers : handler_mark_shipped(h)
    \/ \E h \in Handlers : handler_save_select(h)
    \/ \E h \in Handlers : handler_save_upsert(h)
    \/ \E h \in Handlers : handler_error_select(h)
    \/ \E h \in Handlers : handler_error_upsert(h)
    \/ Quiet /\ tracking_worker_scan
    \/ worker_check
    \/ worker_mark_delivered
    \/ worker_save_select
    \/ worker_save_upsert
    \/ worker_error_select
    \/ worker_error_upsert

SeqSpec == Init /\ [][SeqNext]_vars

\* The same program over a table of two orders, so that one scan selects more
\* than one row.  Order A has failed in earlier scans, order B is synchronised
\* and has not been scanned yet; events still arrive for A.
ScanOrderIds == {"A", "B"}

\* The row the program reaches from the empty table by one successful sync of
\* the order (carrier answer ME2 with protocol TR2).
ShippedRow ==
    [exists |-> TRUE, melhorenvio_order_id |-> "ME2", tracking_code |-> "TR2",
     status |-> "shipped", retry_count |-> 0,
     last_error |-> NULL, updated_at |-> 1, delivered_at |-> NoTime]

ScanInit ==
    /\ db = [o \in ScanOrderIds |-> IF o = "A" THEN SeedRow ELSE ShippedRow]
    /\ now = 1
    /\ hs = [h \in Handlers |-> IdleHandler]
    /\ wk = IdleWorker
    /\ nevents = 0
    /\ nscans = 0
    /\ hist = [o \in ScanOrderIds |-> [NoHist EXCEPT !.errors = db[o].retry_count,
                                               !.shipped = db[o].exists]]
    /\ call = NoCall

ScanSpec == ScanInit /\ [][SoloNext]_vars

\* The reconciliation loop while the carrier reports every queried shipment
\* delivered and the storefront accepts every mark-delivered: the worker's
\* steps with those answers, the loop waking up after each sleep, and request
\* threads as in Next.
check_reports_delivered ==
    worker_check /\ (~Falsy(Head(wk.pending).me_order_id) => wk'.pc = "mark")

mark_delivered_succeeds == worker_mark_delivered /\ wk'.marked

ReconcileStep ==
    \/ tracking_worker_scan
    \/ check_reports_delivered
    \/ mark_delivered_succeeds
    \/ worker_save_select
    \/ worker_save_upsert

ReconcileNext ==
    \/ \E h \in Handlers, pedido \in Payloads : webhook_handler(h, pedido)
    \/ \E h \in Handlers : HandlerStep(h)
    \/ ReconcileStep

ReconcileSpec == Init /\ [][ReconcileNext]_vars /\ WF_vars(ReconcileStep)

\* the same with one request at a time
ReconcileSoloNext ==
    \/ \E h \in Handlers, pedido \in Payloads : NoRequest /\ webhook_handler(h, pedido)
    \/ \E h \in Handlers : HandlerStep(h)
    \/ ReconcileStep

ReconcileSoloSpec == Init /\ [][ReconcileSoloNext]_vars /\ WF_vars(ReconcileStep)

\* ------------------------------------------ helper functions on their own
\* the rest of the program at rest while a helper function is applied
AtRest ==
    /\ db = [o \in OrderIds |-> NoRow]
    /\ now = 1
    /\ hs = [h \in Handlers |-> IdleHandler]
    /\ wk = IdleWorker
    /\ nevents = 0
    /\ nscans = 0
    /\ hist = [o \in OrderIds |-> NoHist]

\* retry_on_failure around a function whose i-th invocation returns a value or
\* raises an exception
RetryOutcomes ==
    { [ok |-> TRUE,  val |-> v, err |-> NULL, http |-> 1] : v \in {"v1", "v2"} }
    \cup { [ok |-> FALSE, val |-> NULL, err |-> e, http |-> 1] : e \in {"e1", "e2"} }

RetryInit ==
    /\ AtRest
    /\ \E n \in 1..MaxAttempts :
         \E results \in [1..n -> RetryOutcomes] :
           call = [fn |-> "retry_on_failure", done |-> FALSE,
                   results |-> results, max_attempts |-> n,
                   out |-> [ok |-> FALSE, val |-> NULL, err |-> NULL,
                            invocations |-> 0, http |-> 0]]

retry_apply ==
    /\ call.fn = "retry_on_failure" /\ ~call.done
    /\ call' = [call EXCEPT !.done = TRUE,
                            !.out = retry_on_failure(call.results, call.max_attempts)]
    /\ UNCHANGED <<db, now, hs, wk, nevents, nscans, hist>>

RetrySpec == RetryInit /\ [][retry_apply]_vars

\* validate_cpf on: the first nine digits of a known CPF with the last
\* CpfVarLen of them replaced by any digits, and two more bodies as they are,
\* each followed by any two check digits; written plain, with dots and dash,
\* one digit short, one digit long; and strings without digits.
CpfVaried == <<"5", "2", "9", "9", "8", "2", "2", "4", "7">>

CpfFixed ==
    { <<"1", "1", "1", "4", "4", "4", "7", "7", "7">>,
      <<"7", "7", "7", "7", "7", "7", "7", "7", "7">> }

Digit == { DigitChars[i] : i \in 1..10 }

CpfBodies ==
    { [i \in 1..9 |-> IF i > 9 - CpfVarLen THEN v[i - (9 - CpfVarLen)] ELSE CpfVaried[i]] :
        v \in [1..CpfVarLen -> Digit] }
    \cup CpfFixed

\* ddd.ddd.ddd-dd
CpfFormat(c) ==
    SubSeq(c, 1, 3) \o <<".">> \o SubSeq(c, 4, 6) \o <<".">> \o SubSeq(c, 7, 9)
    \o <<"-">> \o SubSeq(c, 10, 11)

CpfShapes == {"plain", "formatted", "short", "long", "empty", "punctuation"}

CpfShape(shape, c) ==
    CASE shape = "plain" -> c
      [] shape = "formatted" -> CpfFormat(c)
      [] shape = "short" -> SubSeq(c, 1, 10)
      [] shape = "long" -> c \o <<"0">>
      [] shape = "empty" -> <<>>
      [] shape = "punctuation" -> <<".", "-">>

CpfInit ==
    /\ AtRest
    /\ \E body \in CpfBodies, x \in Digit, y \in Digit :
         \E shape \in IF x = "0" THEN CpfShapes ELSE {"plain"} :
           call = [fn |-> "validate_cpf", done |-> FALSE,
                   cpf |-> CpfShape(shape, body \o <<x, y>>), out |-> FALSE]

validate_cpf_apply ==
    /\ call.fn = "validate_cpf" /\ ~call.done
    /\ call' = [call EXCEPT !.done = TRUE, !.out = validate_cpf(call.cpf)]
    /\ UNCHANGED <<db, now, hs, wk, nevents, nscans, hist>>

CpfSpec == CpfInit /\ [][validate_cpf_apply]_vars

\* clean_document and clean_zipcode applied to None and to every string of up
\* to MaxStrLen characters, and applied again to their own result
CleanChars == {"0", "9", "-", "a"}

CleanFns == {"clean_document", "clean_zipcode"}

CleanInit ==
    /\ AtRest
    /\ \E fn \in CleanFns :
         \/ call = [fn |-> fn, done |-> FALSE, x |-> None, outs |-> <<>>]
         \/ \E n \in 0..MaxStrLen : \E x \in [1..n -> CleanChars] :
              call = [fn |-> fn, done |-> FALSE, x |-> x, outs |-> <<>>]

CleanArg == IF call.outs = <<>> THEN call.x ELSE call.outs[Len(call.outs)]

clean_document_apply ==
    /\ call.fn = "clean_document" /\ ~call.done
    /\ call' = [call EXCEPT !.outs = Append(@, clean_document(CleanArg)),
                            !.done = Len(call.outs) = 1]
    /\ UNCHANGED <<db, now, hs, wk, nevents, nscans, hist>>

clean_zipcode_apply ==
    /\ call.fn = "clean_zipcode" /\ ~call.done
    /\ call' = [call EXCEPT !.outs = Append(@, clean_zipcode(CleanArg)),
                            !.done = Len(call.outs) = 1]
    /\ UNCHANGED <<db, now, hs, wk, nevents, nscans, hist>>

CleanSpec == CleanInit /\ [][clean_document_apply \/ clean_zipcode_apply]_vars

\* the volume of the shipment request for orders without items (absent, null,
\* empty) and with up to MaxItems items
Items ==
    { [weight |-> 5, quantity |-> 1, length |-> 300, height |-> 50, width |-> 100],
      [weight |-> 1, quantity |-> 2, length |-> 207, height |-> 125, width |-> 150],
      [weight |-> 12, quantity |-> 2, length |-> 100, height |-> 400, width |-> 155],
      [weight |-> 1],
      [quantity |-> 3, height |-> 20] }

ItemLists == UNION { [1..n -> Items] : n \in 0..MaxItems }

ItemOrders ==
    { FullOrder("A", "invoiced") }
    \cup { [id |-> "A", fulfillment_status |-> "invoiced", items |-> [t |-> "null"]] }
    \cup { [id |-> "A", fulfillment_status |-> "invoiced", items |-> [t |-> "list", v |-> l]] :
            l \in ItemLists }

VolumeInit ==
    /\ AtRest
    /\ \E pedido \in ItemOrders :
         call = [fn |-> "volumes", done |-> FALSE, pedido |-> pedido,
                 out |-> [items |-> <<>>, volumes |-> <<>>]]

volumes_apply ==
    /\ call.fn = "volumes" /\ ~call.done
    /\ call' = [call EXCEPT !.done = TRUE, !.out = send_to_melhorenvio_volumes(call.pedido)]
    /\ UNCHANGED <<db, now, hs, wk, nevents, nscans, hist>>

VolumeSpec == VolumeInit /\ [][volumes_apply]_vars

\* ================================================================== claims
\* the order an inbound payload carries: the payload itself, or its data field
\* when it is wrapped as {event, data}
EventOrder(pedido) ==
    IF {"event", "data"} \subseteq DOMAIN pedido THEN pedido.data ELSE pedido

EventStatus(pedido) == Get(EventOrder(pedido), "fulfillment_status", "absent")

EventId(pedido) == Get(EventOrder(pedido), "id", "absent")

\* the handler has answered without an outbound call and without a write
NoEffect(h) ==
    /\ hs'[h].pc = "done"
    /\ hs'[h].calls = {}
    /\ hs'[h].wrote = NULL
    /\ db' = db

\* C1: an invoiced event for an order whose stored status is shipped or
\* delivered when it is handled makes no outbound call (neither create-shipment
\* nor mark-shipped) and leaves the order's row as it was.
C1_AlreadyProcessedNoEffect ==
    [][\A h \in Handlers, pedido \in Payloads :
         ( /\ webhook_handler(h, pedido)
           /\ EventStatus(pedido) = "invoiced"
           /\ EventId(pedido) \in OrderIds
           /\ db[EventId(pedido)].exists
           /\ db[EventId(pedido)].status \in {"shipped", "delivered"} )
         => NoEffect(h)]_vars

C1_Witness ==
    \E h \in Handlers, o \in OrderIds :
        /\ hs[h].resp = "200 already processed"
        /\ db[o].exists /\ db[o].status = "delivered"

\* C2: an event whose fulfillment status is not exactly "invoiced" (absent
\* included), given directly or wrapped, makes no outbound call and leaves the
\* whole table as it was.
C2_NotInvoicedNoEffect ==
    [][\A h \in Handlers, pedido \in Payloads :
         (webhook_handler(h, pedido) /\ EventStatus(pedido) # "invoiced")
         => NoEffect(h)]_vars

C2_Witness ==
    \E h \in Handlers, o \in OrderIds :
        /\ hs[h].resp = "200 ignored"
        /\ db[o].exists

\* C3: in a handling, mark-shipped is called only after create-shipment has
\* succeeded, the table is written with status shipped only after mark-shipped
\* has succeeded, and the row then holds the shipment id and the tracking code
\* the carrier returned to this handling.
C3_PipelineOrder ==
    [][\A h \in Handlers :
         /\ ("mark_shipped" \in hs'[h].calls => hs'[h].sent)
         /\ (hs'[h].marked => "mark_shipped" \in hs'[h].calls)
         /\ (hs'[h].wrote = "shipped" => hs'[h].marked)
         /\ (hs[h].pc # "done" /\ hs'[h].wrote = "shipped"
               => /\ db'[hs[h].order_id].status = "shipped"
                  /\ db'[hs[h].order_id].melhorenvio_order_id = hs[h].me_order_id
                  /\ db'[hs[h].order_id].tracking_code = hs[h].tracking
                  /\ hs[h].tracking # NULL)]_vars

C3_Witness ==
    \E h \in Handlers, o \in OrderIds :
        /\ hs[h].wrote = "shipped"
        /\ hs[h].resp = "200 success"
        /\ db[o].exists /\ db[o].status = "shipped"
        /\ db[o].melhorenvio_order_id = "ME2"

\* the handler writes the table in this step, with the given status
HandlerWrites(h, status) == hs[h].pc # "done" /\ hs'[h].wrote = status

\* the worker ends a db_save for the order it is processing in this step
WorkerWrites(pc) == wk.pc = pc /\ wk'.pc # pc

\* the order the worker is processing
Current == Head(wk.pending).bagy_order_id

\* C4: when create-shipment or mark-shipped fails after its retries, the row
\* ends with status error, last_error the failure message and retry_count one
\* higher than before, the message is returned to the caller and the pipeline
\* is not run again; a later invoiced event for an id whose stored status is
\* error is processed again.
C4_FailureRecorded ==
    [][\A h \in Handlers :
         /\ (hs[h].pc \in {"send", "mark"} /\ hs'[h].error_msg # NULL
               => hs'[h].pc = "error_select")
         /\ (HandlerWrites(h, "error") /\ hs[h].error_msg \in {E_CARRIER, E_SHIPPED}
               => /\ db'[hs[h].order_id].status = "error"
                  /\ db'[hs[h].order_id].last_error = hs[h].error_msg
                  /\ db'[hs[h].order_id].retry_count = db[hs[h].order_id].retry_count + 1
                  /\ hs'[h].resp = hs[h].error_msg
                  /\ hs'[h].pc = "done")
         /\ \A pedido \in Payloads :
              ( /\ webhook_handler(h, pedido)
                /\ EventStatus(pedido) = "invoiced"
                /\ EventId(pedido) \in OrderIds
                /\ db[EventId(pedido)].exists
                /\ db[EventId(pedido)].status = "error" )
              => hs'[h].pc = "send"]_vars

\* C5: when processing a selected order raises in a scan, the row afterwards
\* has retry_count one higher, last_error the message, and the status it had
\* before.
C5_ScanErrorKeepsStatus ==
    [][WorkerWrites("error_upsert")
         => /\ db'[Current].retry_count = db[Current].retry_count + 1
            /\ db'[Current].last_error = wk.error_msg
            /\ db'[Current].status = db[Current].status]_vars

\* C6: in a scan, mark-delivered is called only after the carrier query
\* returned true, the row is set delivered only after mark-delivered succeeded,
\* and once a scan has set an order delivered no later scan queries the carrier
\* or calls the storefront for it.
C6_DeliveredOnceThenSilent ==
    [][/\ (wk.pc = "mark" => wk.delivered)
       /\ (WorkerWrites("save_upsert")
             => wk.marked /\ wk.delivered /\ db'[Current].status = "delivered")
       /\ \A o \in OrderIds :
            (hist[o].delivered /\ wk.pc = "check" /\ Current = o /\ wk' # wk)
            => Falsy(Head(wk.pending).me_order_id)]_vars

\* C7: in every state of the table, delivered_at is set if and only if the
\* status is delivered.
C7_DeliveredAtIffDelivered ==
    \A o \in OrderIds :
        db[o].exists => (db[o].delivered_at # NoTime <=> db[o].status = "delivered")

\* C8: once delivered_at has a value, no later write changes it.
C8_DeliveredAtWrittenOnce ==
    [][\A o \in OrderIds :
         db[o].delivered_at # NoTime => db'[o].delivered_at = db[o].delivered_at]_vars

\* C9: retry_count loses no increment and never decreases: it is the number of
\* db_save writes for the id that carried an error.
C9_RetryCountCountsErrors ==
    \A o \in OrderIds : db[o].retry_count = hist[o].errors

\* C10: once retry_count has reached 2 * MAX_RETRIES, no later scan selects the
\* order or calls the carrier or the storefront for it, and the worker never
\* changes its status again.
C10_BreakerIsPermanent ==
    [][\A o \in OrderIds :
         hist[o].tripped
         => /\ (wk.pc = "sleep"
                  => \A i \in 1..Len(wk'.pending) : wk'.pending[i].bagy_order_id # o)
            /\ (wk.pc \in {"save_upsert", "error_upsert"} /\ Current = o
                  => db'[o].status = db[o].status)]_vars

\* the worker starts a scan in this step
ScanStarts == wk.pc = "sleep" /\ nscans' = nscans + 1

\* the order ids of a selection
Selected(pending) == { pending[i].bagy_order_id : i \in 1..Len(pending) }

\* a carrier answer that has neither a tracking nor a protocol field
NoTracking(r) == r.ok /\ "tracking" \notin DOMAIN r.data /\ "protocol" \notin DOMAIN r.data

\* C11: a scan selects exactly the rows with status created or shipped, a
\* tracking code that is present and is not the sentinel, and retry_count below
\* 2 * MAX_RETRIES; a create-shipment answer with neither tracking nor protocol
\* gives the sentinel as tracking code, the handling records it, and no scan
\* selects that order afterwards.
C11_SelectionAndSentinel ==
    [][/\ ScanStarts
          => /\ Selected(wk'.pending) =
                  { o \in DOMAIN db :
                      /\ db[o].exists
                      /\ db[o].status = "created" \/ db[o].status = "shipped"
                      /\ db[o].tracking_code # NULL
                      /\ db[o].tracking_code # "SEM-RASTREIO"
                      /\ db[o].retry_count < 2 * MAX_RETRIES }
             /\ Len(wk'.pending) = Cardinality(Selected(wk'.pending))
             /\ \A o \in DOMAIN db : hist[o].sentinel => o \notin Selected(wk'.pending)
       /\ \A r \in CarrierReplies :
            NoTracking(r)
            => send_to_melhorenvio(FullOrder("A", "invoiced"), r).val[2] = "SEM-RASTREIO"
       /\ \A h \in Handlers :
            HandlerWrites(h, "shipped") /\ hs[h].tracking = "SEM-RASTREIO"
            => db'[hs[h].order_id].tracking_code = "SEM-RASTREIO"]_vars

Successes(results) == { i \in DOMAIN results : results[i].ok }

\* the least element of a non-empty set of numbers
Least(S) == CHOOSE i \in S : \A j \in S : i <= j

\* C13: retry_on_failure with max_attempts = n >= 1 invokes the wrapped function
\* at most n times; it returns the value of the first invocation that succeeds
\* and invokes nothing after it; when all n invocations fail it has made
\* exactly n and raises the exception of the last one.
C13_RetryBounded ==
    (call.fn = "retry_on_failure" /\ call.done)
    => LET n  == call.max_attempts
           ok == Successes(call.results)
       IN /\ call.out.invocations <= n
          /\ call.out.invocations >= 1
          /\ ok # {} => /\ call.out.ok
                        /\ call.out.invocations = Least(ok)
                        /\ call.out.val = call.results[Least(ok)].val
          /\ ok = {} => /\ ~call.out.ok
                        /\ call.out.invocations = n
                        /\ call.out.err = call.results[n].err

\* two failures with different exceptions, then a success
C13_Witness ==
    /\ call.fn = "retry_on_failure" /\ call.done
    /\ call.max_attempts = 3
    /\ call.out.ok /\ call.out.invocations = 3
    /\ call.results[1].err # call.results[2].err

\* every invocation fails, the last exception differs from the first
C13_WitnessAllFail ==
    /\ call.fn = "retry_on_failure" /\ call.done
    /\ ~call.out.ok /\ call.out.invocations = 3
    /\ call.out.err = "e2" /\ call.results[1].err = "e1"

\* the handler returns from the decorated function named by pc in this step
HandlerReturns(h, pc) == hs[h].pc = pc /\ hs'[h].pc # pc

\* the order being handled has no address block or no customer block
NoAddressOrCustomer(pedido) ==
    \/ ~("address" \in DOMAIN pedido \/ "shipping_address" \in DOMAIN pedido)
    \/ "customer" \notin DOMAIN pedido

\* C14: for an invoiced order without an address block or without a customer
\* block no request is sent to the carrier, the body of send_to_melhorenvio is
\* invoked once and not again, mark-shipped is not called, and the row is
\* written with status error.
C14_BuilderFailsOnce ==
    [][\A h \in Handlers :
         /\ (HandlerReturns(h, "send") /\ NoAddressOrCustomer(hs[h].pedido)
               => /\ hs'[h].http = 0
                  /\ "create_shipment" \notin hs'[h].calls
                  /\ hs'[h].error_msg \in {E_ADDRESS, E_CUSTOMER}
                  /\ hs'[h].pc = "error_select"
                  /\ hs'[h].attempts = 1)
         /\ (HandlerWrites(h, "error") /\ hs[h].error_msg \in {E_ADDRESS, E_CUSTOMER}
               => /\ hs'[h].calls = {}
                  /\ db'[hs[h].order_id].status = "error")]_vars

\* a carrier answer to the delivery query that is a transport error, a protocol
\* error, or a list of statuses none of which says delivered
NotDelivered(r) ==
    \/ r.raised
    \/ ~r.ok
    \/ \A i \in 1..Len(r.statuses) :
         r.statuses[i] \notin {"entregue", "delivered", "finalizado"}

\* C15: a delivery query that fails or reports not delivered returns false; the
\* worker then leaves the order without a mark-delivered call and without a
\* write, the whole table is as it was, and mark-delivered is called only for
\* an order whose query returned true.
C15_NotDeliveredNoEffect ==
    [][/\ \A r \in TrackingReplies : NotDelivered(r) => ~melhorenvio_check_delivered(r)
       /\ (wk.pc = "check" /\ wk' # wk /\ ~wk'.delivered
            => /\ db' = db
               /\ wk'.pending = Tail(wk.pending)
               /\ wk'.pc \in {"check", "sleep"}
               /\ wk'.http = 0 /\ ~wk'.marked)
       /\ (wk'.pc = "mark" => wk'.delivered /\ wk'.queries = 1)
       /\ (wk'.http > wk.http \/ (wk'.marked /\ ~wk.marked)
            => wk.pc = "mark" /\ wk.delivered)]_vars

\* a scan has selected the order, found it not delivered and ended: no event
\* has arrived and the row is as it was
C15_Witness ==
    /\ nscans = 1
    /\ nevents = 0
    /\ wk.pc = "sleep"
    /\ db["A"] = SeedRow

\* C16: an event with no order id, looked up in the payload itself or in its
\* data field when the payload has the keys event and data, is answered with
\* the missing-id error whatever else it carries; no outbound call is made and
\* the table is as it was.
C16_NoIdRejected ==
    [][\A h \in Handlers, pedido \in Payloads :
         (webhook_handler(h, pedido) /\ EventId(pedido) = "absent")
         => /\ hs'[h].resp = "400 no id"
            /\ NoEffect(h)]_vars

\* an event without id has been rejected while the order has a row
C16_Witness ==
    \E h \in Handlers :
        /\ hs[h].resp = "400 no id"
        /\ db["A"].exists

\* C17: a handling runs the create-shipment call once and the mark-shipped call
\* once, each with at most MAX_RETRIES invocations and requests, and ends with
\* a response; a scan reaches every order of its selection once, with at most
\* one delivery query and at most MAX_RETRIES mark-delivered requests for it,
\* and ends.
C17_Terminates ==
    /\ [][/\ \A h \in Handlers :
              /\ (HandlerReturns(h, "send") \/ HandlerReturns(h, "mark")
                    => hs'[h].attempts <= MAX_RETRIES /\ hs'[h].http <= MAX_RETRIES)
              /\ (hs'[h].pc = "send" /\ hs[h].pc # "send" => hs[h].pc = "done")
              /\ (hs'[h].pc = "mark" /\ hs[h].pc # "mark" => hs[h].pc = "send")
              /\ (hs'[h].pc = "done" /\ hs'[h] # hs[h] => hs'[h].resp # NULL)
          /\ (wk.pc = "mark" /\ wk' # wk
                => wk'.attempts <= MAX_RETRIES /\ wk'.http <= MAX_RETRIES)
          /\ wk'.queries <= 1
          /\ (wk'.pc = "check" /\ wk' # wk
                => ScanStarts \/ wk'.pending = Tail(wk.pending))
          /\ (wk'.pc = "mark" /\ wk.pc # "mark" => wk.pc = "check")]_vars
    /\ \A h \in Handlers : hs[h].pc # "done" ~> hs[h].pc = "done"
    /\ wk.pc # "sleep" ~> wk.pc = "sleep"

\* a handling has ended with the error of a mark-shipped call that failed in all
\* its attempts, and a scan has ended in which mark-delivered failed in all its
\* attempts
C17_Witness ==
    /\ wk.pc = "sleep"
    /\ nscans >= 1
    /\ hist["A"].tripped
    /\ \E h \in Handlers : hs[h].pc = "done" /\ hs[h].resp = E_SHIPPED

\* the digits of a string, in order
DigitsOf(str) == SelectSeq(str, IsDigit)

\* the modulus-11 check digit of the first n digits of c, weights n + 1 down to 2
RECURSIVE Mod11Sum(_, _)
Mod11Sum(c, n) == IF n = 0 THEN 0 ELSE Mod11Sum(SubSeq(c, 2, Len(c)), n - 1) + int(c[1]) * (n + 1)

Mod11(c, n) ==
    LET v == 11 - (Mod11Sum(c, n) % 11) IN IF v >= 10 THEN 0 ELSE v

AllSame(c) == \A i \in 1..Len(c) : c[i] = c[1]

\* eleven digits, not all the same, the 10th and 11th being the check digits
ValidCpf(c) ==
    /\ Len(c) = 11
    /\ \A i \in 1..11 : IsDigit(c[i])
    /\ ~AllSame(c)
    /\ int(c[10]) = Mod11(c, 9)
    /\ int(c[11]) = Mod11(c, 10)

\* c is a valid CPF with one of its last two digits changed
PerturbedCpf(c) ==
    /\ Len(c) = 11
    /\ \E pos \in {10, 11}, d \in Digit :
         d # c[pos] /\ ValidCpf([c EXCEPT ![pos] = d])

\* C18: validate_cpf accepts every eleven-digit string that is not one digit
\* repeated and whose last two digits are the modulus-11 check digits; it
\* rejects such a string with one of its last two digits changed, every string
\* that has not eleven digits once cleaned, and every digit repeated eleven
\* times.
C18_ValidateCpf ==
    (call.fn = "validate_cpf" /\ call.done)
    => LET c == DigitsOf(call.cpf) IN
       /\ ValidCpf(c) => call.out
       /\ PerturbedCpf(c) => ~call.out
       /\ Len(c) # 11 => ~call.out
       /\ (Len(c) = 11 /\ AllSame(c)) => ~call.out

\* a formatted CPF whose first check digit comes from a value of 10 or more
\* has been accepted
C18_Witness ==
    /\ call.fn = "validate_cpf" /\ call.done /\ call.out
    /\ Len(call.cpf) = 14
    /\ ValidCpf(DigitsOf(call.cpf))
    /\ 11 - (Mod11Sum(DigitsOf(call.cpf), 9) % 11) >= 10

\* the line items an order carries: none when items is absent, null or empty
LineItems(pedido) ==
    IF "items" \in DOMAIN pedido /\ pedido.items.t = "list" THEN pedido.items.v ELSE <<>>

\* a field of a line item in tenths, or the builder's value for a missing field
Field(it, key) ==
    IF key \in DOMAIN it THEN it[key]
    ELSE CASE key = "weight" -> 3 [] key = "quantity" -> 1 [] key = "length" -> 200
           [] key = "width" -> 150 [] key = "height" -> 100

RECURSIVE TotalWeight(_)
TotalWeight(l) ==
    IF l = <<>> THEN 0
    ELSE Field(l[1], "weight") * Field(l[1], "quantity") + TotalWeight(Tail(l))

\* the largest value of a field over a non-empty list of items
Largest(l, key) ==
    CHOOSE m \in { Field(l[i], key) : i \in 1..Len(l) } :
        \A i \in 1..Len(l) : Field(l[i], key) <= m

\* an order without items gets one default item and one volume 0.3 / 20 x 15 x 10
NoItemsDefault ==
    LineItems(call.pedido) = <<>>
    => /\ Len(call.out.items) = 1
       /\ call.out.volumes =
            << [weight |-> 3, length |-> 20, width |-> 15, height |-> 10] >>

\* the weight of the one volume of the request is max(0.3, sum of weight x quantity)
WeightIsFlooredSum ==
    LET l == LineItems(call.pedido) IN
    l # <<>>
    => /\ Len(call.out.volumes) = 1
       /\ call.out.volumes[1].weight = IF TotalWeight(l) >= 3 THEN TotalWeight(l) ELSE 3

\* C19 as stated: an order without items gets exactly one default item and one
\* volume of weight 0.3, length 20, width 15, height 10; for any list of items
\* the weight is max(0.3, sum of weight x quantity) and each dimension of the
\* request is the largest value of that dimension over the items.
C19_VolumeAsStated ==
    (call.fn = "volumes" /\ call.done)
    => /\ NoItemsDefault
       /\ WeightIsFlooredSum
       /\ LET l == LineItems(call.pedido) IN
          l # <<>>
          => \A key \in {"length", "width", "height"} :
               10 * call.out.volumes[1][key] = Largest(l, key)

\* C19: an order without items gets exactly one default item and one volume of
\* weight 0.3, length 20, width 15, height 10; for any list of items the weight
\* is max(0.3, sum of weight x quantity) and each dimension of the request is
\* the largest value of that dimension over the items with its fraction cut off.
C19_VolumeTruncated ==
    (call.fn = "volumes" /\ call.done)
    => /\ NoItemsDefault
       /\ WeightIsFlooredSum
       /\ LET l == LineItems(call.pedido) IN
          l # <<>>
          => \A key \in {"length", "width", "height"} :
               /\ 10 * call.out.volumes[1][key] <= Largest(l, key)
               /\ 10 * (call.out.volumes[1][key] + 1) > Largest(l, key)

\* two items (0.5 kg, 30 x 10 x 5 and 2 x 0.1 kg, 20.7 x 15 x 12.5) give one
\* volume of 0.7 kg, 30 x 15 x 12
C19_Witness ==
    /\ call.fn = "volumes" /\ call.done
    /\ Len(LineItems(call.pedido)) = 2
    /\ call.out.volumes = << [weight |-> 7, length |-> 30, width |-> 15, height |-> 12] >>

\* a db_save without error message ends in this step, for order o
SuccessWrite(o) ==
    \/ \E h \in Handlers : HandlerWrites(h, "shipped") /\ hs[h].order_id = o
    \/ WorkerWrites("save_upsert") /\ Current = o

\* C20 as stated: a db_save without error message leaves the stored last_error
\* as it was.
C20_SuccessKeepsLastError ==
    [][\A o \in DOMAIN db : SuccessWrite(o) => db'[o].last_error = db[o].last_error]_vars

\* C20: a db_save without error message sets last_error to NULL, whatever was
\* stored; the other fields of an error write before it (retry_count) stay.
C20_SuccessClearsLastError ==
    [][\A o \in DOMAIN db :
         SuccessWrite(o)
         => /\ db'[o].last_error = NULL
            /\ db'[o].status \in {"shipped", "delivered"}]_vars

\* an order that failed before has been set delivered: no error message is left
C20_Witness ==
    /\ db["A"].status = "delivered"
    /\ db["A"].last_error = NULL
    /\ db["A"].retry_count >= 1
    /\ hist["A"].errors >= 1

\* C21: once a row holds a shipment id returned by the carrier, no later write
\* replaces it by another value; the handler's error write, which carries no
\* shipment id and no tracking code, leaves both as they were.
C21_ShipmentIdSetOnce ==
    [][/\ \A o \in DOMAIN db :
            (db[o].exists /\ ~Falsy(db[o].melhorenvio_order_id))
            => db'[o].melhorenvio_order_id = db[o].melhorenvio_order_id
       /\ \A h \in Handlers :
            (HandlerWrites(h, "error") /\ db[hs[h].order_id].exists)
            => /\ db'[hs[h].order_id].melhorenvio_order_id =
                    db[hs[h].order_id].melhorenvio_order_id
               /\ db'[hs[h].order_id].tracking_code = db[hs[h].order_id].tracking_code]_vars

\* C22: clean_document and clean_zipcode return exactly the digits of their
\* input, in the input's order and nothing else; None and the empty string
\* give the empty string; applying the function to its own result returns
\* that result.
OnlyDigits(str) == \A i \in 1..Len(str) : IsDigit(str[i])

C22_CleanIdempotentDigits ==
    (call.fn \in CleanFns /\ Len(call.outs) >= 1) =>
        /\ OnlyDigits(call.outs[1])
        /\ call.x # None => call.outs[1] = SelectSeq(call.x, IsDigit)
        /\ (call.x = None \/ call.x = <<>>) => call.outs[1] = <<>>
        /\ Len(call.outs) = 2 => call.outs[2] = call.outs[1]

C22_Witness ==
    /\ call.fn = "clean_zipcode" /\ Len(call.outs) = 2
    /\ call.x = <<"9", "-", "0">>
    /\ call.outs[2] = <<"9", "0">>

C22_WitnessNone ==
    /\ call.fn = "clean_document" /\ Len(call.outs) = 2
    /\ call.x = None /\ call.outs[1] = <<>>

\* C23: once status 'shipped' has been recorded for an order, and events and
\* scans run one at a time, no handling of a later event calls create-shipment
\* for that order.
C23_ShippedNeverSentAgain ==
    [][\A h \in Handlers :
         (hs[h].pc = "send" /\ hs'[h].pc # "send" /\ hist[hs[h].order_id].shipped)
         => "create_shipment" \notin hs'[h].calls]_vars

\* C24: of the handlers that are handling an 'invoiced' event for the same
\* order at the same time, at most one has got past the already-processed
\* guard and has had a shipment created by the carrier.
InFlight(h) == hs[h].pc \in {"mark", "save_select", "save_upsert", "error_select", "error_upsert"}

C24_OneHandlerCreates ==
    \A o \in DOMAIN db :
        Cardinality({ h \in Handlers :
                        InFlight(h) /\ hs[h].order_id = o /\ hs[h].sent }) <= 1

\* C25: a row whose status is 'delivered' keeps that status through every
\* step of every handler and of the tracking worker.
C25_DeliveredIsTerminal ==
    [][\A o \in DOMAIN db :
         (db[o].exists /\ db[o].status = "delivered") => db'[o].status = "delivered"]_vars

\* C26: while the carrier reports delivered and mark-delivered succeeds, and
\* the reconciliation loop keeps running, a row with status 'shipped', a
\* tracking code other than the sentinel, a non-empty shipment id and
\* retry_count below 2 * MAX_RETRIES eventually has status 'delivered'
\* (stated for rows that are in that state while a scan is still to come).
Reconcilable(row) ==
    /\ row.exists /\ row.status = "shipped"
    /\ ~Falsy(row.tracking_code) /\ row.tracking_code # SEM_RASTREIO
    /\ ~Falsy(row.melhorenvio_order_id)
    /\ row.retry_count < 2 * MAX_RETRIES

C26_ShippedEventuallyDelivered ==
    \A o \in OrderIds :
        (Reconcilable(db[o]) /\ nscans < MaxScans) ~> (db[o].status = "delivered")

====
